---- MODULE Spec2Model ----
(***************************************************************************)
(* SPBVP (beluga/solvers/bvp_solvers/SPBVP.py): the adapter between a      *)
(* guess (Trajectory) and scipy's solve_bvp.  One solver instance `self`,  *)
(* solve calls that may overlap, the Trajectory objects and aux dicts on   *)
(* the heap, and the closures _fun, _bc and _fun_jac evaluated by the      *)
(* engine while a call is inside solve_bvp.                                *)
(***************************************************************************)
EXTENDS Integers, Sequences, FiniteSets, TLC

VARIABLES self, problem, kwargs, objs, dicts, call, ev

vars == <<self, problem, kwargs, objs, dicts, call, ev>>

(* ---------------------------------------------------------------- bounds *)
MaxStates == 2
MaxQuads == 1
MaxDyn == 1
MaxNonDyn == 1
MaxMesh == 2

Calls == {"a", "b"}
Iters == {1, 2}
Elapsed == {5}
Messages == {"converged", "max_nodes exceeded", "singular Jacobian"}

(* ------------------------------------------------------ numpy primitives *)
Num(n) == [fn |-> "num", v |-> n]

\* s[a:b] on a one-dimensional array, 0-based, the stop clamped to the length
PySlice(s, a, b) ==
    LET hi == IF b < Len(s) THEN b ELSE Len(s)
    IN  IF hi <= a THEN <<>> ELSE [i \in 1..(hi - a) |-> s[a + i]]

\* m[:, a:b] on a two-dimensional array kept as a sequence of rows
ColSlice(m, a, b) == [r \in 1..Len(m) |-> PySlice(m[r], a, b)]

\* m.T for a two-dimensional array with at least one row
Transpose(m) == [j \in 1..Len(m[1]) |-> [i \in 1..Len(m) |-> m[i][j]]]

\* np.hstack of two two-dimensional arrays with the same number of rows
HStack2(a, b) == [r \in 1..Len(a) |-> a[r] \o b[r]]

\* np.hstack of two one-dimensional arrays
HStack1(a, b) == a \o b

\* np.zeros((r, c))
Zeros(r, c) == [i \in 1..r |-> [j \in 1..c |-> Num(0)]]

\* arr.size of a two-dimensional array (np.array([]) is the empty sequence)
Size(m) == IF Len(m) = 0 THEN 0 ELSE Len(m) * Len(m[1])

\* arr.shape[1]
Shape1(m) == Len(m[1])

\* dict[key] = value
DictSet(d, key, value) ==
    [x \in (DOMAIN d) \cup {key} |-> IF x = key THEN value ELSE d[x]]

\* dict.get(key, default)
DictGet(d, key, default) == IF key \in DOMAIN d THEN d[key] ELSE default

(* ------------------------------------------------- the supplied functions *)
\* derivative_function(state, dyn_params, constants): one entry per state of
\* the problem, each a function of exactly the arguments it was handed
derivative_function(x, p, k) ==
    [i \in 1..problem.nstates |-> [fn |-> "f", i |-> i, x |-> x, p |-> p, k |-> k]]

\* the quadrature integrand the problem supplies: one entry per quadrature
supplied_quadrature_function(x, p, k) ==
    [i \in 1..problem.nquads |-> [fn |-> "g", i |-> i, x |-> x, p |-> p, k |-> k]]

\* def return_nil(*_, **__): return np.array([])
return_nil(x, p, k) == <<>>

\* self.quadrature_function(...) through whatever the attribute holds now
quadrature_function(x, p, k) ==
    IF self.quadrature_function = "return_nil" THEN return_nil(x, p, k)
    ELSE supplied_quadrature_function(x, p, k)

(* ------------------------------------------------------------ the guesses *)
MeshT(m) == [j \in 1..m |-> j - 1]
GuessY(m, n) == [r \in 1..m |-> [c \in 1..n |-> 10 * r + c]]
GuessQ(m, n, nq) == [r \in 1..m |-> [c \in 1..nq |-> 10 * r + n + c]]

\* a guess of the problem: q is np.array([]) when the guess carries no quadratures
Guess(withq, m, auxref) ==
    [t |-> MeshT(m),
     y |-> GuessY(m, problem.nstates),
     q |-> IF withq THEN GuessQ(m, problem.nstates, problem.nquads) ELSE <<>>,
     p |-> [i \in 1..problem.ndyn |-> 70 + i],
     nu |-> [i \in 1..problem.nnondyn |-> 80 + i],
     k |-> <<9>>,
     lam |-> GuessY(m, problem.nstates),
     aux |-> auxref,
     converged |-> FALSE]

(* ------------------------------------------------------------------ heap *)
Ref(c, what) == <<c, what>>

\* solinit = solinit: the working object is the caller's own
deepcopy_alias(h, o, newobj, newdict) == [ref |-> o, objs |-> h.objs, dicts |-> h.dicts]

\* copy.deepcopy(solinit): a new object whose aux is a new dict
deepcopy(h, o, newobj, newdict) ==
    [ref |-> newobj,
     objs |-> [x \in (DOMAIN h.objs) \cup {newobj} |->
                 IF x = newobj THEN [h.objs[o] EXCEPT !.aux = newdict] ELSE h.objs[x]],
     dicts |-> [x \in (DOMAIN h.dicts) \cup {newdict} |->
                 IF x = newdict THEN h.dicts[h.objs[o].aux] ELSE h.dicts[x]]]

\* copy.copy(solinit): a new object with the same attribute references
shallowcopy(h, o, newobj) ==
    [ref |-> newobj,
     objs |-> [x \in (DOMAIN h.objs) \cup {newobj} |->
                 IF x = newobj THEN h.objs[o] ELSE h.objs[x]],
     dicts |-> h.dicts]

(* ----------------------------------------------------------- construction *)
DefaultMaxNodes == 2000
DocumentedDefaultMaxNodes == 1000

Idle == [pc |-> "idle"]
NoEval == [kind |-> "none"]

\* SPBVP.__init__, for a problem of nstates states, nquads quadratures, ndyn
\* dynamic and nnondyn non-dynamic parameters.  No analytic boundary Jacobian
\* is supplied, so _bc_jac is None (lines 102 to 103).
Init ==
    /\ problem \in [nstates : 1..MaxStates, nquads : 0..MaxQuads,
                    ndyn : 0..MaxDyn, nnondyn : 0..MaxNonDyn,
                    quadrature_function : {"supplied", "None"},
                    derivative_function_jac : {"matrix", "vector", "None"}]
    /\ problem.nquads > 0 => problem.quadrature_function = "supplied"
    /\ kwargs \in {<<>>, [max_nodes |-> 3]}
    /\ self = [derivative_function |-> "supplied",
               quadrature_function |-> problem.quadrature_function,
               boundarycondition_function |-> "supplied",
               derivative_function_jac |->
                   IF problem.derivative_function_jac = "None" THEN "None" ELSE "supplied",
               boundarycondition_function_jac |-> "None",
               max_nodes |-> DictGet(kwargs, "max_nodes", DefaultMaxNodes)]
    /\ objs = <<>>
    /\ dicts = <<>>
    /\ call = [c \in Calls |-> Idle]
    /\ ev = NoEval

(* ------------------------------------------------ solve, lines 29 to 116 *)
\* the arguments of solve_bvp(_fun, _bc, x, y, p, max_nodes=, fun_jac=, bc_jac=)
invocation(solinit, nquads) ==
    [x |-> solinit.t,
     y |-> Transpose(IF nquads > 0 THEN HStack2(solinit.y, solinit.q) ELSE solinit.y),
     p |-> HStack1(solinit.p, solinit.nu),
     max_nodes |-> self.max_nodes,
     fun_jac |-> self.derivative_function_jac # "None",
     bc_jac |-> self.boundarycondition_function_jac # "None"]

\* the heap as the caller of call c has it: the guess, with an empty aux dict
CallerHeap(c, withq) ==
    [objs |-> [x \in (DOMAIN objs) \cup {Ref(c, "guess")} |->
                 IF x = Ref(c, "guess") THEN Guess(withq, 2, Ref(c, "guess")) ELSE objs[x]],
     dicts |-> [x \in (DOMAIN dicts) \cup {Ref(c, "guess")} |->
                 IF x = Ref(c, "guess") THEN <<>> ELSE dicts[x]]]

\* solve up to the call of solve_bvp: the deep copy, the Dimension Splitter,
\* the substitution of return_nil for the quadrature function, the closures
\* (which capture nstates, nquads, ndyn, nnondyn and const=solinit.k) and the
\* arguments handed to the engine
Enter(c) ==
    /\ call[c].pc = "idle"
    /\ \E withq \in BOOLEAN :
         /\ withq => problem.nquads > 0
         /\ \E cp \in {deepcopy(CallerHeap(c, withq), Ref(c, "guess"),
                               Ref(c, "copy"), Ref(c, "copy"))} :
              LET g == Ref(c, "guess")
                  solinit == cp.objs[cp.ref]
                  nstates == Shape1(solinit.y)
                  nquads == IF Size(solinit.q) > 0 THEN Shape1(solinit.q) ELSE 0
              IN  /\ objs' = cp.objs
                  /\ dicts' = cp.dicts
                  /\ self' = IF Size(solinit.q) > 0 THEN self
                             ELSE [self EXCEPT !.quadrature_function = "return_nil"]
                  /\ call' = [call EXCEPT ![c] =
                                [pc |-> "engine", guess |-> g, solinit |-> cp.ref,
                                 before |-> [obj |-> Guess(withq, 2, g), aux |-> <<>>],
                                 nstates |-> nstates, nquads |-> nquads,
                                 ndyn |-> Len(solinit.p), nnondyn |-> Len(solinit.nu),
                                 const |-> solinit.k,
                                 engine |-> invocation(solinit, nquads)]]
    /\ ev' = NoEval
    /\ UNCHANGED <<problem, kwargs>>

(* -------------------------------------------- the closures, lines 50 to 103 *)
\* what the engine hands a closure: y with one row per variable and one column
\* per mesh node, and the stacked parameter vector
EngineY(w, m) == [i \in 1..w |-> [j \in 1..m |-> 100 + 10 * j + i]]
EngineP(n) == [i \in 1..n |-> 170 + i]

Returned(value) == [raised |-> "none", value |-> value]
Raised(what) == [raised |-> what, value |-> <<>>]

\* _fun(t, y, params, const): both definitions, selected by the captured nquads
\* (cl holds the captured nstates, nquads, ndyn and const=solinit.k)
fun(cl, y, params) ==
    LET yT == Transpose(y)
        o1 == [n \in 1..Len(yT) |->
                 derivative_function(PySlice(yT[n], 0, cl.nstates),
                                     PySlice(params, 0, cl.ndyn), cl.const)]
    IN  IF cl.nquads = 0
        THEN [ret |-> Returned(Transpose(o1)), quadcalls |-> 0]
        ELSE IF self.quadrature_function = "None"
        THEN [ret |-> Raised("TypeError"), quadcalls |-> 0]
        ELSE LET o2 == [n \in 1..Len(yT) |->
                          quadrature_function(PySlice(yT[n], 0, cl.nstates),
                                              PySlice(params, 0, cl.ndyn), cl.const)]
             IN  [ret |-> Returned(Transpose(HStack2(o1, o2))), quadcalls |-> Len(yT)]

\* boundarycondition_function with the arguments it is handed
boundarycondition_function(args) == [fn |-> "bc", args |-> args]

\* _bc(ya, yb, params, const): both definitions, selected by the captured nquads
bc(cl, ya, yb, params) ==
    IF cl.nquads = 0
    THEN boundarycondition_function(
             <<ya, yb, PySlice(params, 0, cl.ndyn),
               PySlice(params, cl.ndyn, cl.ndyn + cl.nnondyn), cl.const>>)
    ELSE boundarycondition_function(
             <<PySlice(ya, 0, cl.nstates),
               PySlice(ya, cl.nstates, cl.nstates + cl.nquads),
               PySlice(yb, 0, cl.nstates),
               PySlice(yb, cl.nstates, cl.nstates + cl.nquads),
               PySlice(params, 0, cl.ndyn),
               PySlice(params, cl.ndyn, cl.ndyn + cl.nnondyn), cl.const>>)

\* the analytic Jacobian the problem supplies: the state block is nstates x
\* nstates of the problem; the parameter block is nstates x ndyn, or, for a
\* function that lets a one-row or one-column block collapse, a vector
derivative_function_jac(x, p, k) ==
    LET ns == problem.nstates
        nd == problem.ndyn
        e(what, i, j) == [fn |-> what, i |-> i, j |-> j, x |-> x, p |-> p, k |-> k]
        block == [i \in 1..ns |-> [j \in 1..nd |-> e("df_dp", i, j)]]
    IN  [df_dy |-> [i \in 1..ns |-> [j \in 1..ns |-> e("df_dy", i, j)]],
         df_dp |-> IF problem.derivative_function_jac = "vector" /\ ns = 1
                   THEN [ndim |-> 1, a |-> block[1]]
                   ELSE IF problem.derivative_function_jac = "vector" /\ nd = 1
                   THEN [ndim |-> 1, a |-> [i \in 1..ns |-> block[i][1]]]
                   ELSE [ndim |-> 2, a |-> block]]

\* arr[:, :, ii] = block: numpy broadcasts block to the slot's shape or raises
CanBroadcast(block, rows, cols) ==
    /\ Len(block) = rows \/ Len(block) = 1
    /\ Len(block[1]) = cols \/ Len(block[1]) = 1

Broadcast(block, rows, cols) ==
    [i \in 1..rows |-> [j \in 1..cols |->
        block[IF Len(block) = 1 THEN 1 ELSE i][IF Len(block[1]) = 1 THEN 1 ELSE j]]]

\* if nstates > 1 and len(_df_dp.shape) == 1: _df_dp = np.array([_df_dp]).T
promote(nstates, df_dp) ==
    IF nstates > 1 /\ df_dp.ndim = 1
    THEN [ndim |-> 2, a |-> [i \in 1..Len(df_dp.a) |-> <<df_dp.a[i]>>]]
    ELSE df_dp

\* np.hstack((_df_dp, np.zeros((nstates, nnondyn)))): the arrays must have the
\* same number of dimensions and of rows
CanPad(df_dp, nstates) == df_dp.ndim = 2 /\ Len(df_dp.a) = nstates

\* one pass of the loop of _fun_jac over mesh node yi, in slots of wid rows
jac_node(cl, yi, params, wid) ==
    LET px == PySlice(params, 0, cl.ndyn)
        j == derivative_function_jac(yi, px, cl.const)
        dp == promote(cl.nstates, j.df_dp)
    IN  IF ~CanBroadcast(j.df_dy, wid, wid) THEN [raised |-> "ValueError", args |-> <<yi, px>>]
        ELSE IF ~CanPad(dp, cl.nstates) THEN [raised |-> "ValueError", args |-> <<yi, px>>]
        ELSE LET padded == HStack2(dp.a, Zeros(cl.nstates, cl.nnondyn))
             IN  IF ~CanBroadcast(padded, wid, cl.ndyn + cl.nnondyn)
                 THEN [raised |-> "ValueError", args |-> <<yi, px>>]
                 ELSE [raised |-> "none", args |-> <<yi, px>>,
                       df_dy |-> Broadcast(j.df_dy, wid, wid),
                       df_dp |-> Broadcast(padded, wid, cl.ndyn + cl.nnondyn)]

\* _fun_jac(t, y, params, const).  The three-axis arrays df_dy[:, :, ii] and
\* df_dp[:, :, ii] are kept as one block per mesh node ii.
fun_jac(cl, y, params) ==
    LET yT == Transpose(y)
        wid == Len(yT[1])
        node == [n \in 1..Len(yT) |-> jac_node(cl, yT[n], params, wid)]
        args == [n \in 1..Len(yT) |-> node[n].args]
    IN  IF \E n \in 1..Len(yT) : node[n].raised # "none"
        THEN [raised |-> "ValueError", args |-> <<args[1]>>, ret |-> "nothing",
              df_dy |-> <<>>, df_dp |-> <<>>]
        ELSE [raised |-> "none", args |-> args,
              ret |-> IF cl.ndyn + cl.nnondyn = 0 THEN "df_dy" ELSE "df_dy, df_dp",
              df_dy |-> [n \in 1..Len(yT) |-> node[n].df_dy],
              df_dp |-> IF cl.ndyn + cl.nnondyn = 0 THEN <<>>
                        ELSE [n \in 1..Len(yT) |-> node[n].df_dp]]

(* ------------------------------------- inside solve_bvp, lines 105 to 116 *)
InEngine(c) == call[c].pc = "engine"

\* what the closures of call c captured when they were defined
Closure(c) ==
    [nstates |-> call[c].nstates, nquads |-> call[c].nquads, ndyn |-> call[c].ndyn,
     nnondyn |-> call[c].nnondyn, const |-> call[c].const]

\* the heap without the objects of call c: they leave the model with the call
Release(h, c) == [x \in {r \in DOMAIN h : r[1] # c} |-> h[x]]

\* the engine raises if _fun raises or its result is not shaped like y
Fits(r, y) == r.raised = "none" /\ Len(r.value) = Len(y)

\* the engine evaluates _fun; an exception leaves solve
EvalFun(c) ==
    /\ InEngine(c)
    /\ \E m \in 1..MaxMesh :
         \E r \in {fun(Closure(c), EngineY(Len(call[c].engine.y), m),
                        EngineP(Len(call[c].engine.p)))} :
         LET cl == Closure(c)
             y == EngineY(Len(call[c].engine.y), m)
             params == EngineP(Len(call[c].engine.p))
         IN  /\ ev' = [kind |-> "fun", call |-> c, cl |-> cl, y |-> y, params |-> params,
                       ret |-> r.ret, quadcalls |-> r.quadcalls,
                       running |-> {d \in Calls : call[d].pc = "engine"}]
             /\ IF Fits(r.ret, y)
                THEN UNCHANGED <<call, objs, dicts>>
                ELSE /\ call' = [call EXCEPT ![c] = Idle]
                     /\ objs' = Release(objs, c)
                     /\ dicts' = Release(dicts, c)
    /\ UNCHANGED <<self, problem, kwargs>>

\* the engine evaluates _bc at the two ends of the mesh
EvalBc(c) ==
    /\ InEngine(c)
    /\ LET cl == Closure(c)
           y == EngineY(Len(call[c].engine.y), 2)
           yT == Transpose(y)
           params == EngineP(Len(call[c].engine.p))
       IN  ev' = [kind |-> "bc", call |-> c, cl |-> cl, y |-> y, params |-> params,
                  ret |-> bc(cl, yT[1], yT[2], params)]
    /\ UNCHANGED <<self, problem, kwargs, objs, dicts, call>>

\* the engine evaluates _fun_jac, which exists only if an analytic Jacobian
\* was supplied; an exception leaves solve
EvalFunJac(c) ==
    /\ InEngine(c)
    /\ call[c].engine.fun_jac
    /\ \E m \in 1..MaxMesh :
         \E r \in {fun_jac(Closure(c), EngineY(Len(call[c].engine.y), m),
                            EngineP(Len(call[c].engine.p)))} :
         LET cl == Closure(c)
             y == EngineY(Len(call[c].engine.y), m)
             params == EngineP(Len(call[c].engine.p))
         IN  /\ ev' = [kind |-> "jac", call |-> c, cl |-> cl, y |-> y, params |-> params,
                       out |-> r]
             /\ IF r.raised = "none"
                THEN UNCHANGED <<call, objs, dicts>>
                ELSE /\ call' = [call EXCEPT ![c] = Idle]
                     /\ objs' = Release(objs, c)
                     /\ dicts' = Release(dicts, c)
    /\ UNCHANGED <<self, problem, kwargs>>

(* ---------------------------------- the Result Composer, lines 118 to 137 *)
\* what solve_bvp returns: the refined mesh, y with one row per variable, the
\* parameters (None when the engine has none to return) and the diagnostics
EngineResult(cl, m, status, niter, pnone) ==
    [x |-> MeshT(m),
     y |-> EngineY(Len(cl.engine.y), m),
     p |-> [none |-> pnone,
            a |-> IF pnone THEN <<>> ELSE EngineP(Len(cl.engine.p))],
     success |-> status = "converged",
     message |-> status,
     rms_residuals |-> [j \in 1..(m - 1) |-> 0],
     niter |-> niter]

\* sol.y = opt['y'].T[:, :nstates]
split_y(yT, nstates) == ColSlice(yT, 0, nstates)

\* sol.q = opt['y'].T[:, nstates:nstates+nquads]
split_q_short(yT, nstates, nquads) == ColSlice(yT, nstates, nquads)

split_q(yT, nstates, nquads) == ColSlice(yT, nstates, nstates + nquads)

\* sol.lam = np.zeros_like(sol.y)
zeros_like(y) == Zeros(Len(y), Len(y[1]))

\* sol.converged = opt['success']
converged_always(opt) == TRUE

converged(opt) == opt.success

\* lines 118 to 132: sol is a shallow copy of the working copy; its attributes
\* are rebound, and its aux, the dict it shares with the working copy, is
\* written in place
compose(h, cl, opt, comp_time, newobj) ==
    LET sc == shallowcopy(h, cl.solinit, newobj)
        old == sc.objs[newobj]
        yT == Transpose(opt.y)
        y == split_y(yT, cl.nstates)
        sol == [t |-> opt.x,
                y |-> y,
                q |-> split_q(yT, cl.nstates, cl.nquads),
                p |-> IF ~opt.p.none THEN PySlice(opt.p.a, 0, cl.ndyn) ELSE <<>>,
                nu |-> IF ~opt.p.none
                       THEN PySlice(opt.p.a, cl.ndyn, cl.ndyn + cl.nnondyn) ELSE <<>>,
                k |-> old.k,
                lam |-> zeros_like(y),
                aux |-> old.aux,
                converged |-> converged(opt)]
    IN  [ref |-> newobj,
         objs |-> [sc.objs EXCEPT ![newobj] = sol],
         dicts |-> [sc.dicts EXCEPT ![old.aux] =
                      DictSet(DictSet(sc.dicts[old.aux], "comp_time", comp_time),
                              "niter", opt.niter)]]

\* solve_bvp returns, having evaluated _fun (and _fun_jac, if it was given
\* one) on the mesh it returns without an exception, and solve composes and
\* returns the BVPResult to the caller
Finish(c) ==
    /\ InEngine(c)
    /\ \E m \in 2..MaxMesh :
         /\ Fits(fun(Closure(c), EngineY(Len(call[c].engine.y), m),
                     EngineP(Len(call[c].engine.p))).ret,
                 EngineY(Len(call[c].engine.y), m))
         /\ call[c].engine.fun_jac =>
              fun_jac(Closure(c), EngineY(Len(call[c].engine.y), m),
                      EngineP(Len(call[c].engine.p))).raised = "none"
         /\ \E status \in Messages, niter \in Iters, comp_time \in Elapsed :
              \E opt \in {EngineResult(call[c], m, status, niter,
                                       Len(call[c].engine.p) = 0)} :
              \E r \in {compose([objs |-> objs, dicts |-> dicts], call[c], opt,
                                comp_time, Ref(c, "sol"))} :
              LET cl == call[c]
              IN  ev' = [kind |-> "return", call |-> c, cl |-> cl, opt |-> opt,
                         objs |-> r.objs, dicts |-> r.dicts,
                         out |-> [sol |-> r.ref, success |-> opt.success,
                                  message |-> opt.message,
                                  rms_residuals |-> opt.rms_residuals,
                                  niter |-> opt.niter]]
    /\ call' = [call EXCEPT ![c] = Idle]
    /\ objs' = Release(objs, c)
    /\ dicts' = Release(dicts, c)
    /\ UNCHANGED <<self, problem, kwargs>>

Next ==
    \E c \in Calls :
        \/ Enter(c)
        \/ EvalFun(c)
        \/ EvalBc(c)
        \/ EvalFunJac(c)
        \/ Finish(c)

Spec == Init /\ [][Next]_vars
\* calls of solve made one after the other: a call enters only when no other
\* call is inside solve
SeqEnter(c) ==
    /\ \A d \in Calls \ {c} : call[d].pc = "idle"
    /\ Enter(c)

NextSeq ==
    \E c \in Calls :
        \/ SeqEnter(c)
        \/ EvalFun(c)
        \/ EvalBc(c)
        \/ EvalFunJac(c)
        \/ Finish(c)

SpecSeq == Init /\ [][NextSeq]_vars

(* ================================================================ claims *)
Fields == {"t", "y", "q", "p", "nu", "k", "lam", "converged"}

\* the state sub-vector and the dynamic parameters of mesh node n of an evaluation
NodeState(e, n) == [i \in 1..e.cl.nstates |-> e.y[i][n]]
DynParams(e) == [i \in 1..e.cl.ndyn |-> e.params[i]]

\* C1: solve leaves the caller's guess unmodified: while a call is inside
\* solve, and when it returns, every field of the caller's object (t, y, q, p,
\* nu, k, lam, converged, and the contents of aux) is what it was at entry, and
\* the solution the Result Composer writes, with its aux dict, is not the
\* caller's object nor its aux dict.
C1_GuessUnmodified ==
    /\ \A c \in Calls : call[c].pc = "engine" =>
         /\ \A f \in Fields : objs[call[c].guess][f] = call[c].before.obj[f]
         /\ dicts[objs[call[c].guess].aux] = call[c].before.aux
    /\ ev.kind = "return" =>
         LET g == ev.cl.guess
             sol == ev.objs[ev.out.sol]
         IN  /\ \A f \in Fields : ev.objs[g][f] = ev.cl.before.obj[f]
             /\ ev.dicts[ev.objs[g].aux] = ev.cl.before.aux
             /\ ev.out.sol # g
             /\ sol.aux # ev.objs[g].aux
             /\ "comp_time" \notin DOMAIN ev.dicts[ev.objs[g].aux]
             /\ "niter" \notin DOMAIN ev.dicts[ev.objs[g].aux]

\* a call has returned and the Result Composer has written comp_time and niter
C1_Witness ==
    /\ ev.kind = "return"
    /\ {"comp_time", "niter"} \subseteq DOMAIN ev.dicts[ev.objs[ev.out.sol].aux]
    /\ ev.objs[ev.out.sol].y # ev.cl.before.obj.y

\* C2: no state is carried from one solve call to the next: the solver's
\* quadrature function and Jacobian functions and max_nodes stay what was
\* supplied at construction, and a call with nquads > 0 evaluates the
\* originally supplied quadrature function whatever calls came before.
C2_NoStateAcrossCalls ==
    /\ self.quadrature_function = problem.quadrature_function
    /\ self.derivative_function = "supplied"
    /\ self.boundarycondition_function = "supplied"
    /\ self.derivative_function_jac = "None" <=> problem.derivative_function_jac = "None"
    /\ self.max_nodes = DictGet(kwargs, "max_nodes", DefaultMaxNodes)
    /\ (ev.kind = "fun" /\ ev.cl.nquads > 0) =>
         /\ ev.ret.raised = "none"
         /\ \A n \in 1..Len(ev.y[1]) : \A i \in 1..ev.cl.nquads :
              ev.ret.value[ev.cl.nstates + i][n].fn = "g"

\* C3: two overlapping solve calls, one with nquads = 0 and one with nquads >
\* 0: every evaluation of a call's dynamics closure returns what it returns
\* when the call runs alone, the derivative rows over the rows of the supplied
\* quadrature function.
C3_ConcurrentCallsIndependent ==
    (/\ ev.kind = "fun"
     /\ ev.running = Calls
     /\ \E c \in Calls : call[c].pc = "engine" /\ call[c].nquads = 0
     /\ ev.cl.nquads > 0) =>
        /\ ev.ret.raised = "none"
        /\ Len(ev.ret.value) = ev.cl.nstates + ev.cl.nquads
        /\ \A n \in 1..Len(ev.y[1]) :
             [i \in 1..Len(ev.ret.value) |-> ev.ret.value[i][n]]
               = derivative_function(NodeState(ev, n), DynParams(ev), ev.cl.const)
                 \o supplied_quadrature_function(NodeState(ev, n), DynParams(ev), ev.cl.const)

\* C4: the Result Composer sets y to the first nstates columns of the engine's
\* output and q to the next nquads columns: every engine column lands in
\* exactly one of them, q has no column when nquads = 0, and lam is a zero
\* matrix shaped like the new y.
C4_ComposerSplitsColumns ==
    ev.kind = "return" =>
        LET sol == ev.objs[ev.out.sol]
            ns == ev.cl.nstates
            nq == ev.cl.nquads
            nodes == Len(ev.opt.y[1])
        IN  /\ Len(ev.opt.y) = ns + nq
            /\ Len(sol.y) = nodes /\ Len(sol.q) = nodes /\ Len(sol.lam) = nodes
            /\ \A r \in 1..nodes :
                 /\ Len(sol.y[r]) = ns
                 /\ Len(sol.q[r]) = nq
                 /\ \A j \in 1..ns : sol.y[r][j] = ev.opt.y[j][r]
                 /\ \A j \in 1..nq : sol.q[r][j] = ev.opt.y[ns + j][r]
                 /\ Len(sol.lam[r]) = ns
                 /\ \A j \in 1..ns : sol.lam[r][j] = Num(0)

\* a call with quadratures has returned
C4_Witness == ev.kind = "return" /\ ev.cl.nquads > 0 /\ ev.cl.nstates > 1

\* C5: at every mesh node the dynamics closure's column is the derivative
\* function of the node's first nstates entries and the first ndyn parameters,
\* over the supplied quadrature function of the same arguments when nquads >
\* 0 (nstates + nquads rows); when nquads = 0 it is the derivative alone
\* (nstates rows) and the quadrature function is never invoked.
C5_DynamicsClosure ==
    ev.kind = "fun" =>
        /\ ev.ret.raised = "none"
        /\ Len(ev.ret.value) = ev.cl.nstates + ev.cl.nquads
        /\ ev.cl.nquads = 0 => ev.quadcalls = 0
        /\ \A n \in 1..Len(ev.y[1]) :
             LET col == [i \in 1..Len(ev.ret.value) |-> ev.ret.value[i][n]]
                 x == NodeState(ev, n)
                 f == [i \in 1..ev.cl.nstates |->
                         [fn |-> "f", i |-> i, x |-> x, p |-> DynParams(ev), k |-> ev.cl.const]]
                 g == [i \in 1..ev.cl.nquads |->
                         [fn |-> "g", i |-> i, x |-> x, p |-> DynParams(ev), k |-> ev.cl.const]]
             IN  col = f \o g

C7_FailureIsAValue ==
    ev.kind = "return" =>
        LET sol == ev.objs[ev.out.sol]
        IN  /\ ev.out.success = ev.opt.success
            /\ ev.out.message = ev.opt.message
            /\ ev.out.niter = ev.opt.niter
            /\ sol.converged = ev.out.success
            /\ ev.dicts[sol.aux]["niter"] = ev.out.niter

\* the engine has given up on the node budget and solve has returned
C7_Witness ==
    /\ ev.kind = "return"
    /\ ~ev.out.success
    /\ ev.out.message = "max_nodes exceeded"

\* C8: the max_nodes handed to the engine is the value given at construction,
\* or the documented default of 1000 when none was given, and is > 2.
C8_MaxNodesDefault ==
    \A c \in Calls : call[c].pc = "engine" =>
        /\ call[c].engine.max_nodes =
             DictGet(kwargs, "max_nodes", DocumentedDefaultMaxNodes)
        /\ call[c].engine.max_nodes > 2

\* C9: with nstates = 1 and an analytic Jacobian that returns its parameter
\* sensitivities as a vector, the closure promotes the vector to a matrix, so
\* padding and the per-node assignment succeed (here without quadratures).
C9_VectorPromotedWhenOneState ==
    (/\ ev.kind = "jac"
     /\ problem.derivative_function_jac = "vector"
     /\ ev.cl.nstates = 1
     /\ ev.cl.nquads = 0) =>
        /\ ev.out.raised = "none"
        /\ ev.cl.ndyn + ev.cl.nnondyn > 0 =>
             \A n \in 1..Len(ev.y[1]) :
                 /\ Len(ev.out.df_dp[n]) = 1
                 /\ Len(ev.out.df_dp[n][1]) = ev.cl.ndyn + ev.cl.nnondyn

\* C10: at every mesh node the dynamics-Jacobian closure hands the analytic
\* function the node's first nstates entries (no quadrature entry) and the
\* first ndyn parameters, and stores a state block of nstates x nstates and a
\* parameter block of nstates rows (here for a matrix-valued Jacobian).
C10_JacobianArguments ==
    (ev.kind = "jac" /\ problem.derivative_function_jac = "matrix") =>
        /\ \A n \in DOMAIN ev.out.args :
             ev.out.args[n] = <<NodeState(ev, n), DynParams(ev)>>
        /\ ev.out.raised = "none"
        /\ \A n \in 1..Len(ev.y[1]) :
             /\ Len(ev.out.df_dy[n]) = ev.cl.nstates
             /\ \A i \in 1..Len(ev.out.df_dy[n]) : Len(ev.out.df_dy[n][i]) = ev.cl.nstates
             /\ ev.cl.ndyn + ev.cl.nnondyn > 0 => Len(ev.out.df_dp[n]) = ev.cl.nstates
====
